---- MODULE Spec2Model ----
(***************************************************************************)
(* State-machine model of the CASSE user-management backend: the user      *)
(* table, the audit log, the service functions of apps/users/services,     *)
(* the selectors, the login view and the own-profile view.                 *)
(*                                                                         *)
(* Every handler is one atomic action.  A handler is a pure operator from  *)
(* the store before the call to an outcome record                          *)
(*   [users, audit, err, code, ret, tokens, logged]                        *)
(* and the action commits that outcome and records the call in `result`.   *)
(***************************************************************************)
EXTENDS Integers, Sequences, FiniteSets, TLC

VARIABLES
    users,   \* the User table: a sequence of rows in insertion order
    audit,   \* the AuditLog table: a sequence of rows in insertion order
    now,     \* the clock read by auto_now / auto_now_add / timezone.now()
    result,  \* the last call: its inputs and what the caller got back
    pending  \* the request that has been validated and not yet served

vars == <<users, audit, now, result, pending>>

----------------------------------------------------------------------------
(* Bounds of the model *)

\* The clock advances by one with every call and no call is made once it shows
\* MaxTime: a behaviour holds MaxTime - 3 calls after the seeded state (whose
\* clock shows 3).
MaxTime == 5

----------------------------------------------------------------------------
(* Enumerations and constants of the program *)

ADMIN == "ADMIN"
CLIENT == "CLIENT"
INTERVENTORIA == "INTERVENTORIA"
SUPERVISOR == "SUPERVISOR"
Roles == {ADMIN, CLIENT, INTERVENTORIA, SUPERVISOR}

ACTIVE == "ACTIVE"
SUSPENDED == "SUSPENDED"
Statuses == {ACTIVE, SUSPENDED}

ALLOWED_LIST_ROLES == {ADMIN, SUPERVISOR, INTERVENTORIA}

SELF_EDITABLE_FIELDS ==
    {"full_name", "phone", "address", "email_secondary", "profile_photo_url",
     "password"}

\* the prohibited set with "role" forgotten
SELF_PROHIBITED_FIELDS_norole ==
    {"status", "email_primary", "id_type", "id_number", "birth_date",
     "created_at", "updated_at", "last_login_at"}
SELF_PROHIBITED_FIELDS ==
    {"role", "status", "email_primary", "id_type", "id_number", "birth_date",
     "created_at", "updated_at", "last_login_at"}

LOGIN_SUCCESS == "LOGIN_SUCCESS"
LOGIN_FAILED == "LOGIN_FAILED"
USER_REGISTERED == "USER_REGISTERED"
USER_CREATED_BY_ADMIN == "USER_CREATED_BY_ADMIN"
USER_UPDATED_BY_ADMIN == "USER_UPDATED_BY_ADMIN"
USER_UPDATED_SELF == "USER_UPDATED_SELF"
USER_SUSPENDED == "USER_SUSPENDED"
USER_ACTIVATED == "USER_ACTIVATED"

\* SQL NULL / Python None, per column type
Never == 0                \* a NULL timestamp
NoId == 0                 \* a NULL foreign key or entity id
Null == "<null>"          \* a NULL text or date column
EmptyEmail == <<"", "">>  \* the empty string as an e-mail address
NoUser == [id |-> NoId]   \* "no user object"
NoData == <<>>            \* the empty dict

----------------------------------------------------------------------------
(* Strings: e-mail addresses are <<local part, domain>> *)

\* str.lower() on the strings the model uses
LowerStr(s) ==
    CASE s = "Ana" -> "ana"
      [] s = "Bob" -> "bob"
      [] s = "Root" -> "root"
      [] s = "X.com" -> "x.com"
      [] OTHER -> s

\* value.strip().lower() on an address
LowerEmail(e) == <<LowerStr(e[1]), LowerStr(e[2])>>

\* BaseUserManager.normalize_email: lowercases the domain part only
normalize_email(e) == <<e[1], LowerStr(e[2])>>

\* AbstractBaseUser.set_password / check_password: a one-way hash
make_password(p) == <<"hash", p>>
check_password(p, h) == h = make_password(p)

----------------------------------------------------------------------------
(* The User table *)

Ids(tbl) == {tbl[i].id : i \in DOMAIN tbl}
Exists(tbl, id) == id \in Ids(tbl)
Get(tbl, id) == tbl[CHOOSE i \in DOMAIN tbl : tbl[i].id = id]

\* the unique constraints of the table, checked for `row` against the others
DuplicateEmail(tbl, row) ==
    \E i \in DOMAIN tbl :
        tbl[i].id # row.id /\ tbl[i].email_primary = row.email_primary
\* a table without the unique_together constraint
DuplicateIdentity_never(tbl, row) == FALSE
DuplicateIdentity(tbl, row) ==
    \E i \in DOMAIN tbl :
        /\ tbl[i].id # row.id
        /\ tbl[i].id_type = row.id_type
        /\ tbl[i].id_number = row.id_number
NullViolation(row) == row.birth_date = Null
IntegrityViolation(tbl, row) ==
    DuplicateEmail(tbl, row) \/ DuplicateIdentity(tbl, row) \/ NullViolation(row)

\* Model.save(): UPDATE ... WHERE id = row.id, and INSERT when no row has it
Put(tbl, row) ==
    IF \E i \in DOMAIN tbl : tbl[i].id = row.id
    THEN [i \in DOMAIN tbl |-> IF tbl[i].id = row.id THEN row ELSE tbl[i]]
    ELSE Append(tbl, row)

\* the role check written as a staff check
IsAdminRole_staff(user) == user.role \in {ADMIN, SUPERVISOR}
is_active(user) == user.status = ACTIVE
IsAdminRole(user) == user.role = ADMIN

----------------------------------------------------------------------------
(* Outcomes *)

\* What a call did and gave back: the tables after it, the exception class
\* (err, "none" on success) and its message, the HTTP status (0 for a service
\* called directly), the returned user, whether tokens were returned, and
\* what log_audit_event did ("none": not called).
Outcome(tbl, log, err, msg, ret, logged) ==
    [users |-> tbl, audit |-> log, err |-> err, msg |-> msg, code |-> 0,
     ret |-> ret, tokens |-> FALSE, logged |-> logged, rows |-> <<>>]

\* an exception raised with the tables as they are
Raised(tbl, log, err, msg) == Outcome(tbl, log, err, msg, NoUser, "none")

----------------------------------------------------------------------------
(* apps/audit/services/audit_log.py *)

AuditRow(log, clock, actor, action, entity, entity_id, metadata, ip) ==
    [id |-> Len(log) + 1, actor_user |-> actor, action |-> action,
     entity |-> entity, entity_id |-> entity_id, metadata |-> metadata,
     ip_address |-> ip, created_at |-> clock]

\* `if not action and not entity`
MissingRequired_both(action, entity) ==
    action \in {"", Null} /\ entity \in {"", Null}
\* `if not action or not entity`: None and the empty string are both falsy
MissingRequired(action, entity) ==
    action \in {"", Null} \/ entity \in {"", Null}

\* a logger that builds the record and never saves it
log_audit_event_unsaved(log, clock, actor, action, entity, entity_id, metadata, ip, storeOk) ==
    [audit |-> log, logged |-> "created", raised |-> FALSE]

\* a logger without its `except Exception`
log_audit_event_raising(log, clock, actor, action, entity, entity_id, metadata, ip, storeOk) ==
    IF MissingRequired(action, entity)
    THEN [audit |-> log, logged |-> "skipped", raised |-> FALSE]
    ELSE IF storeOk
    THEN [audit |-> Append(log, AuditRow(log, clock, actor, action, entity,
                                         entity_id, metadata, ip)),
          logged |-> "created", raised |-> FALSE]
    ELSE [audit |-> log, logged |-> "failed", raised |-> TRUE]

\* storeOk: whether AuditLog.objects.create succeeds.  The caller gets
\* [audit, logged, raised]: the log after the call, what happened, and
\* whether an exception left the function.
log_audit_event(log, clock, actor, action, entity, entity_id, metadata, ip, storeOk) ==
    IF MissingRequired(action, entity)
    THEN [audit |-> log, logged |-> "skipped", raised |-> FALSE]
    ELSE IF storeOk
    THEN [audit |-> Append(log, AuditRow(log, clock, actor, action, entity,
                                         entity_id, metadata, ip)),
          logged |-> "created", raised |-> FALSE]
    ELSE [audit |-> log, logged |-> "failed", raised |-> FALSE]

\* The end of a service after its write: the user row is saved (tbl), the
\* audit call is ev; an exception leaving log_audit_event would be re-raised
\* by the service's `except Exception: raise`.
AfterAudit(tbl, ev, ret) ==
    IF ev.raised
    THEN Outcome(tbl, ev.audit, "Exception", "audit", NoUser, ev.logged)
    ELSE Outcome(tbl, ev.audit, "none", "", ret, ev.logged)

----------------------------------------------------------------------------
(* apps/users/models.py: UserManager.create_user *)

ModelFields ==
    {"id", "full_name", "id_type", "id_number", "birth_date", "phone",
     "email_primary", "role", "status", "password", "created_at",
     "updated_at", "last_login_at"}

FieldOr(d, k, default) == IF k \in DOMAIN d THEN d[k] ELSE default

\* self.model(email_primary=..., **extra_fields) followed by set_password:
\* columns not given take the field default ('' for text, NULL for the date,
\* CLIENT / ACTIVE for role / status); auto_now_add / auto_now set the stamps.
NewRow(tbl, clock, email, password, extra) ==
    [id |-> Len(tbl) + 1,
     full_name |-> FieldOr(extra, "full_name", ""),
     id_type |-> FieldOr(extra, "id_type", ""),
     id_number |-> FieldOr(extra, "id_number", ""),
     birth_date |-> FieldOr(extra, "birth_date", Null),
     phone |-> FieldOr(extra, "phone", ""),
     email_primary |-> email,
     role |-> FieldOr(extra, "role", CLIENT),
     status |-> FieldOr(extra, "status", ACTIVE),
     password |-> make_password(password),
     created_at |-> clock,
     updated_at |-> clock,
     last_login_at |-> FieldOr(extra, "last_login_at", Never)]

\* [err, row, users]
create_user(tbl, clock, email_primary, password, extra) ==
    IF email_primary = EmptyEmail
    THEN [err |-> "ValueError", row |-> NoUser, users |-> tbl]
    ELSE IF ~(DOMAIN extra \subseteq ModelFields)
    THEN [err |-> "TypeError", row |-> NoUser, users |-> tbl]
    ELSE LET row == NewRow(tbl, clock, normalize_email(email_primary),
                           password, extra)
         IN  IF IntegrityViolation(tbl, row)
             THEN [err |-> "IntegrityError", row |-> NoUser, users |-> tbl]
             ELSE [err |-> "none", row |-> row, users |-> Append(tbl, row)]

\* dict without some keys (dict.pop)
Without(d, ks) == [k \in DOMAIN d \ ks |-> d[k]]
\* dict.setdefault
SetDefault(d, k, v) == IF k \in DOMAIN d THEN d ELSE d @@ (k :> v)

----------------------------------------------------------------------------
(* apps/users/services/users.py *)

\* `not password`: the key is missing, None or the empty string
Falsy(d, k) == k \notin DOMAIN d \/ d[k] = "" \/ d[k] = Null

register_user(tbl, log, clock, data, ip, storeOk) ==
    IF Falsy(data, "password")
    THEN Raised(tbl, log, "ValidationError", "password_required")
    ELSE IF "email_primary" \notin DOMAIN data
    THEN Raised(tbl, log, "KeyError", "email_primary")
    ELSE
      LET d1 == SetDefault(SetDefault(Without(data, {"password"}),
                                      "role", CLIENT), "status", ACTIVE)
          c  == create_user(tbl, clock, d1.email_primary, data.password,
                            Without(d1, {"email_primary"}))
      IN  IF c.err = "IntegrityError"
          THEN Raised(tbl, log, "ValidationError", "email_in_use")
          ELSE IF c.err # "none"
          THEN Raised(tbl, log, c.err, "")
          ELSE AfterAudit(c.users,
                 log_audit_event(log, clock, c.row.id, USER_REGISTERED, "User",
                     c.row.id,
                     [email |-> c.row.email_primary, role |-> c.row.role],
                     ip, storeOk),
                 c.row)

create_user_by_admin(tbl, log, clock, data, actor_user, ip, storeOk) ==
    IF ~IsAdminRole(actor_user)
    THEN Raised(tbl, log, "PermissionDenied", "create")
    ELSE IF Falsy(data, "password")
    THEN Raised(tbl, log, "ValidationError", "password_required")
    ELSE IF "email_primary" \notin DOMAIN data
    THEN Raised(tbl, log, "KeyError", "email_primary")
    ELSE
      LET c == create_user(tbl, clock, data.email_primary, data.password,
                           Without(data, {"password", "email_primary"}))
      IN  IF c.err = "IntegrityError"
          THEN Raised(tbl, log, "ValidationError", "email_in_use")
          ELSE IF c.err # "none"
          THEN Raised(tbl, log, c.err, "")
          ELSE AfterAudit(c.users,
                 log_audit_event(log, clock, actor_user.id,
                     USER_CREATED_BY_ADMIN, "User", c.row.id,
                     [created_user_email |-> c.row.email_primary,
                      created_user_role |-> c.row.role,
                      created_user_status |-> c.row.status,
                      created_by |-> actor_user.id],
                     ip, storeOk),
                 c.row)

\* for key, value in data.items(): if hasattr(user, key): setattr(user, key, value)
\* (password is popped first and goes through set_password when truthy)
RECURSIVE SetAttrs(_, _, _)
SetAttrs(user, d, ks) ==
    IF ks = {} THEN user
    ELSE LET k == CHOOSE x \in ks : TRUE
         IN  SetAttrs(IF k \in DOMAIN user THEN [user EXCEPT ![k] = d[k]] ELSE user,
                      d, ks \ {k})

ApplyFields(user, data) ==
    LET plain == SetAttrs(user, data, DOMAIN data \ {"password"})
    IN  IF Falsy(data, "password") THEN plain
        ELSE [plain EXCEPT !.password = make_password(data.password)]

\* Model.save() of a loaded row: auto_now stamps updated_at, every column is
\* written; the table's constraints can refuse the write. [err, users, row]
save(tbl, clock, user) ==
    LET row == [user EXCEPT !.updated_at = clock]
    IN  IF IntegrityViolation(tbl, row)
        THEN [err |-> "IntegrityError", users |-> tbl, row |-> row]
        ELSE [err |-> "none", users |-> Put(tbl, row), row |-> row]

\* the "changes" of the audit metadata: role, status, email_primary that differ
\* the three fields listed whether they differ or not
Changes_all(old, new) ==
    [k \in {"role", "status", "email_primary"} |->
        [old |-> old[k], new |-> new[k]]]
Changes(old, new) ==
    [k \in {f \in {"role", "status", "email_primary"} : old[f] # new[f]} |->
        [old |-> old[k], new |-> new[k]]]

AdminUpdateMetadata(old, user, actor_user) ==
    LET base == [updated_user_id |-> user.id,
                 updated_user_email |-> user.email_primary,
                 updated_by |-> actor_user.id]
        changes == Changes(old, user)
    IN  IF DOMAIN changes # {} THEN base @@ ("changes" :> changes) ELSE base

update_user_by_admin(tbl, log, clock, user_id, data, actor_user, ip, storeOk) ==
    IF ~IsAdminRole(actor_user)
    THEN Raised(tbl, log, "PermissionDenied", "update")
    ELSE IF ~Exists(tbl, user_id)
    THEN Raised(tbl, log, "DoesNotExist", "")
    ELSE
      LET user == Get(tbl, user_id)
          s == save(tbl, clock, ApplyFields(user, data))
      IN  IF s.err # "none"
          THEN Raised(tbl, log, s.err, "")
          ELSE AfterAudit(s.users,
                 log_audit_event(log, clock, actor_user.id,
                     USER_UPDATED_BY_ADMIN, "User", s.row.id,
                     AdminUpdateMetadata(user, s.row, actor_user), ip, storeOk),
                 s.row)

\* set(data.keys()) & SELF_PROHIBITED_FIELDS
ProhibitedIn(data) == DOMAIN data \cap SELF_PROHIBITED_FIELDS
\* {k: v for k, v in data.items() if k in SELF_EDITABLE_FIELDS}
AllowedData(data) == [k \in DOMAIN data \cap SELF_EDITABLE_FIELDS |-> data[k]]

\* metadata that carries the new password along with the flag
SelfUpdateMetadata_leaky(allowed_data) ==
    LET base == [updated_fields |-> DOMAIN allowed_data \ {"password"}]
    IN  IF Falsy(allowed_data, "password") THEN base
        ELSE base @@ ("password_changed" :> TRUE)
                  @@ ("password" :> allowed_data.password)
SelfUpdateMetadata(allowed_data) ==
    LET base == [updated_fields |-> DOMAIN allowed_data \ {"password"}]
    IN  IF Falsy(allowed_data, "password") THEN base
        ELSE base @@ ("password_changed" :> TRUE)

update_self_user(tbl, log, clock, user, data, ip, storeOk) ==
    IF ProhibitedIn(data) # {}
    THEN Raised(tbl, log, "ValidationError", "prohibited_fields")
    ELSE IF DOMAIN AllowedData(data) = {}
    THEN Raised(tbl, log, "ValidationError", "no_valid_fields")
    ELSE
      LET allowed_data == AllowedData(data)
          s == save(tbl, clock, ApplyFields(user, allowed_data))
      IN  IF s.err # "none"
          THEN Raised(tbl, log, s.err, "")
          ELSE AfterAudit(s.users,
                 log_audit_event(log, clock, s.row.id, USER_UPDATED_SELF,
                     "User", s.row.id, SelfUpdateMetadata(allowed_data),
                     ip, storeOk),
                 s.row)

\* suspend_user without its early return
AlreadySuspended_never(user) == FALSE
\* `if user.status == User.Status.SUSPENDED: return user`
AlreadySuspended(user) == user.status = SUSPENDED
\* `if user.status == User.Status.ACTIVE: return user`
AlreadyActive(user) == user.status = ACTIVE

suspend_user(tbl, log, clock, user_id, actor_user, ip, storeOk) ==
    IF ~IsAdminRole(actor_user)
    THEN Raised(tbl, log, "PermissionDenied", "suspend")
    ELSE IF ~Exists(tbl, user_id)
    THEN Raised(tbl, log, "DoesNotExist", "")
    ELSE
      LET user == Get(tbl, user_id)
      IN  IF AlreadySuspended(user)
          THEN Outcome(tbl, log, "none", "", user, "none")
          ELSE
            LET s == save(tbl, clock, [user EXCEPT !.status = SUSPENDED])
            IN  IF s.err # "none"
                THEN Raised(tbl, log, s.err, "")
                ELSE AfterAudit(s.users,
                       log_audit_event(log, clock, actor_user.id,
                           USER_SUSPENDED, "User", s.row.id,
                           [suspended_user_email |-> s.row.email_primary,
                            suspended_by |-> actor_user.id],
                           ip, storeOk),
                       s.row)

activate_user(tbl, log, clock, user_id, actor_user, ip, storeOk) ==
    IF ~IsAdminRole(actor_user)
    THEN Raised(tbl, log, "PermissionDenied", "activate")
    ELSE IF ~Exists(tbl, user_id)
    THEN Raised(tbl, log, "DoesNotExist", "")
    ELSE
      LET user == Get(tbl, user_id)
      IN  IF AlreadyActive(user)
          THEN Outcome(tbl, log, "none", "", user, "none")
          ELSE
            LET s == save(tbl, clock, [user EXCEPT !.status = ACTIVE])
            IN  IF s.err # "none"
                THEN Raised(tbl, log, s.err, "")
                ELSE AfterAudit(s.users,
                       log_audit_event(log, clock, actor_user.id,
                           USER_ACTIVATED, "User", s.row.id,
                           [activated_user_email |-> s.row.email_primary,
                            activated_by |-> actor_user.id],
                           ip, storeOk),
                       s.row)

----------------------------------------------------------------------------
(* apps/users/selectors/users.py *)

\* field__icontains=search on the strings the model uses
SubstringOf(n, h) ==
    \/ n = h
    \/ <<n, h>> \in {<<"an", "ana">>, <<"an", "ann">>, <<"30", "300">>,
                     <<"30", "301">>, <<"o", "bob">>, <<"o", "root">>,
                     <<"o", "x.com">>}
icontains(h, n) == SubstringOf(LowerStr(n), LowerStr(h))

SearchMatches(row, search) ==
    \/ icontains(row.full_name, search)
    \/ icontains(row.email_primary[1], search)
    \/ icontains(row.email_primary[2], search)
    \/ icontains(row.id_number, search)
    \/ icontains(row.phone, search)

\* order_by('-created_at') over a set of rows of the table
RECURSIVE OrderByCreatedDesc(_)
OrderByCreatedDesc(rows) ==
    IF rows = {} THEN <<>>
    ELSE LET first == CHOOSE r \in rows :
                        \A q \in rows : /\ q.created_at <= r.created_at
                                        /\ (q.created_at = r.created_at => r.id <= q.id)
         IN  <<first.id>> \o OrderByCreatedDesc(rows \ {first})

\* a role filter whose value is no role matches no user
RoleFilter_strict(filters) ==
    IF Falsy(filters, "role") THEN Roles
    ELSE IF filters.role \in Roles THEN {filters.role} ELSE {}
\* a filter is applied when its value is truthy and, for role and status, valid
RoleFilter(filters) ==
    IF ~Falsy(filters, "role") /\ filters.role \in Roles THEN {filters.role} ELSE Roles
StatusFilter(filters) ==
    IF ~Falsy(filters, "status") /\ filters.status \in Statuses
    THEN {filters.status} ELSE Statuses

list_users(tbl, log, filters, actor_user) ==
    IF actor_user.role \notin ALLOWED_LIST_ROLES
    THEN Raised(tbl, log, "PermissionDenied", "list")
    ELSE
      LET queryset ==
            {tbl[i] : i \in {j \in DOMAIN tbl :
                /\ tbl[j].role \in RoleFilter(filters)
                /\ tbl[j].status \in StatusFilter(filters)
                /\ (Falsy(filters, "search") \/ SearchMatches(tbl[j], filters.search))}}
      IN  [Outcome(tbl, log, "none", "", NoUser, "none")
             EXCEPT !.rows = OrderByCreatedDesc(queryset)]

----------------------------------------------------------------------------
(* apps/authn: LoginSerializer and LoginView.post *)

\* The serializer: the user whose email_primary is the lowercased address
\* and whose password matches; [valid, user, errors]
LoginSerializer(tbl, data) ==
    IF Falsy(data, "password") \/ "email_primary" \notin DOMAIN data
       \/ data.email_primary = EmptyEmail
    THEN [valid |-> FALSE, user |-> NoUser, errors |-> "required"]
    ELSE
      LET found == {i \in DOMAIN tbl :
                      /\ tbl[i].email_primary = LowerEmail(data.email_primary)
                      /\ check_password(data.password, tbl[i].password)}
      IN  IF found = {}
          THEN [valid |-> FALSE, user |-> NoUser, errors |-> "invalid_credentials"]
          ELSE [valid |-> TRUE, user |-> tbl[CHOOSE i \in found : TRUE],
                errors |-> ""]

Response(o, code, err, msg) == [o EXCEPT !.code = code, !.err = err, !.msg = msg]

\* an exception leaving a view is answered 500 by the framework
ViewAfterAudit(tbl, ev, ok) ==
    IF ev.raised
    THEN Response(Outcome(tbl, ev.audit, "", "", NoUser, ev.logged),
                  500, "InternalFailure", "unhandled")
    ELSE [ok EXCEPT !.users = tbl, !.audit = ev.audit, !.logged = ev.logged]

\* user.save() without update_fields: auto_now rewrites updated_at as well
SaveLastLogin_full(tbl, clock, user) ==
    [i \in DOMAIN tbl |->
        IF tbl[i].id = user.id
        THEN [tbl[i] EXCEPT !.last_login_at = clock, !.updated_at = clock]
        ELSE tbl[i]]

\* user.save(update_fields=['last_login_at']): one column of one row
SaveLastLogin(tbl, clock, user) ==
    [i \in DOMAIN tbl |->
        IF tbl[i].id = user.id THEN [tbl[i] EXCEPT !.last_login_at = clock]
        ELSE tbl[i]]

\* failed-login metadata that tells an unknown address from a wrong password
LoginFailedMetadata_lookup(email) == [email |-> email, reason |-> "user_not_found"]
\* the view without its status check
LoginBlocked_never(user) == FALSE

\* metadata of the LOGIN_FAILED record of a request the serializer refused
LoginFailedMetadata(email) == [email |-> email, reason |-> "invalid_credentials"]

\* `if user.status != user.Status.ACTIVE`
LoginBlocked(user) == user.status # ACTIVE

\* token issuance whose failure is swallowed instead of re-raised
generate_tokens_for_user_swallow(user, tokenOk) == TRUE

\* RefreshToken.for_user(user): TRUE when the pair of tokens is returned,
\* FALSE when the exception of a failed issuance is logged and re-raised
generate_tokens_for_user(user, tokenOk) == tokenOk

LoginView_post(tbl, log, clock, data, ip, tokenOk, storeOk) ==
    LET serializer == LoginSerializer(tbl, data)
        user == serializer.user
        blank == Outcome(tbl, log, "", "", NoUser, "none")
    IN  IF ~serializer.valid
        THEN LET denied == Response(blank, 401, "InvalidCredentials",
                                    serializer.errors)
             IN  IF "email_primary" \in DOMAIN data /\ data.email_primary # EmptyEmail
                 THEN ViewAfterAudit(tbl,
                        log_audit_event(log, clock, NoId, LOGIN_FAILED, "User",
                            NoId,
                            LoginFailedMetadata(data.email_primary),
                            ip, storeOk),
                        denied)
                 ELSE denied
        ELSE IF LoginBlocked(user)
        THEN ViewAfterAudit(tbl,
               log_audit_event(log, clock, user.id, LOGIN_FAILED, "User",
                   user.id, [reason |-> "user_suspended"], ip, storeOk),
               Response(blank, 403, "AccountSuspended", "Usuario suspendido"))
        ELSE IF ~generate_tokens_for_user(user, tokenOk)
        THEN Response(blank, 500, "InternalFailure", "Error al generar tokens")
        ELSE
          LET saved == SaveLastLogin(tbl, clock, user)
          IN  ViewAfterAudit(saved,
                log_audit_event(log, clock, user.id, LOGIN_SUCCESS, "User",
                    user.id, [email |-> user.email_primary], ip, storeOk),
                [Response(blank, 200, "none", "") EXCEPT
                    !.tokens = TRUE, !.ret = Get(saved, user.id)])

----------------------------------------------------------------------------
(* apps/users: UserMeUpdateSerializer and UserMeView.patch *)

UserMeUpdateSerializer_fields ==
    {"full_name", "phone", "address", "email_secondary", "profile_photo_url",
     "password"}
PROHIBITED_FIELDS ==
    {"role", "status", "email_primary", "id_type", "id_number", "birth_date",
     "created_at", "updated_at", "last_login_at"}

\* Serializer.to_internal_value keeps the declared writable fields of the
\* body; validate(attrs) then looks for prohibited keys among what was kept.
\* [valid, validated_data]
UserMeUpdateSerializer(body) ==
    LET attrs == [k \in DOMAIN body \cap UserMeUpdateSerializer_fields |-> body[k]]
    IN  [valid |-> DOMAIN attrs \cap PROHIBITED_FIELDS = {},
         validated_data |-> attrs]

UserMeView_patch(tbl, log, clock, user, body, ip, storeOk) ==
    LET serializer == UserMeUpdateSerializer(body)
    IN  IF ~serializer.valid
        THEN Response(Outcome(tbl, log, "", "", NoUser, "none"),
                      400, "ValidationError", "prohibited_fields")
        ELSE LET o == update_self_user(tbl, log, clock, user,
                                       serializer.validated_data, ip, storeOk)
             IN  IF o.err # "none" THEN [o EXCEPT !.code = 400]
                 ELSE [o EXCEPT !.code = 200]

----------------------------------------------------------------------------
(* apps/users/serializers.py: UserRegisterSerializer; apps/authn/views.py:   *)
(* RegisterView.post                                                         *)

\* the fields of the registration serializer with role and status declared
UserRegisterSerializer_fields_role ==
    {"full_name", "id_type", "id_number", "email_primary", "phone",
     "birth_date", "password", "email_secondary", "address",
     "profile_photo_url", "role", "status"}
UserRegisterSerializer_fields ==
    {"full_name", "id_type", "id_number", "email_primary", "phone",
     "birth_date", "password", "email_secondary", "address",
     "profile_photo_url"}
\* the required fields with full_name left optional
UserRegisterSerializer_required_nameless ==
    {"id_type", "id_number", "email_primary", "phone", "birth_date", "password"}
UserRegisterSerializer_required ==
    {"full_name", "id_type", "id_number", "email_primary", "phone",
     "birth_date", "password"}

\* value.strip().lower(), then an exact lookup of the lowered address
validate_email_primary(tbl, value) ==
    LET lowered == LowerEmail(value)
    IN  [value |-> lowered,
         valid |-> ~\E i \in DOMAIN tbl : tbl[i].email_primary = lowered]

\* The declared fields of the body are kept; required fields must be there;
\* the model's unique=True and unique_together give the serializer exact
\* uniqueness validators on the raw values; validate_email_primary lowers
\* the address.  [valid, errors, validated_data]
UserRegisterSerializer(tbl, body) ==
    LET attrs == [k \in DOMAIN body \cap UserRegisterSerializer_fields |-> body[k]]
        refused(e) == [valid |-> FALSE, errors |-> e, validated_data |-> NoData]
    IN  IF ~(UserRegisterSerializer_required \subseteq DOMAIN attrs)
        THEN refused("required")
        ELSE IF \/ \E i \in DOMAIN tbl : tbl[i].email_primary = attrs.email_primary
                \/ ~validate_email_primary(tbl, attrs.email_primary).valid
        THEN refused("email_in_use")
        ELSE IF \E i \in DOMAIN tbl : /\ tbl[i].id_type = attrs.id_type
                                      /\ tbl[i].id_number = attrs.id_number
        THEN refused("identity_in_use")
        ELSE [valid |-> TRUE, errors |-> "",
              validated_data |->
                 [attrs EXCEPT !.email_primary =
                     validate_email_primary(tbl, attrs.email_primary).value]]

RegisterView_post(tbl, log, clock, body, ip, storeOk) ==
    LET serializer == UserRegisterSerializer(tbl, body)
    IN  IF ~serializer.valid
        THEN Response(Outcome(tbl, log, "", "", NoUser, "none"),
                      400, "ValidationError", serializer.errors)
        ELSE LET o == register_user(tbl, log, clock, serializer.validated_data,
                                    ip, storeOk)
             IN  IF o.err # "none" THEN [o EXCEPT !.code = 400]
                 ELSE [o EXCEPT !.code = 201]

----------------------------------------------------------------------------
(* A view in two steps: the checks made on the request (permission, lookup, *)
(* serializer.is_valid()) give a verdict; the service is then called with   *)
(* the validated data.  Other requests can be served between the two.       *)

Refused(code, err, msg) ==
    [ok |-> FALSE, code |-> code, err |-> err, msg |-> msg,
     validated_data |-> NoData]
Accepted(validated_data) ==
    [ok |-> TRUE, code |-> 0, err |-> "", msg |-> "",
     validated_data |-> validated_data]

\* the answer to a request refused by its checks
Answer(tbl, log, v) ==
    Response(Outcome(tbl, log, "", "", NoUser, "none"), v.code, v.err, v.msg)

\* the answer after the service call: `except Exception` answers 400
Served(o, success) ==
    IF o.err # "none" THEN [o EXCEPT !.code = 400]
    ELSE [o EXCEPT !.code = success]

RegisterView_check(tbl, body) ==
    LET serializer == UserRegisterSerializer(tbl, body)
    IN  IF serializer.valid THEN Accepted(serializer.validated_data)
        ELSE Refused(400, "ValidationError", serializer.errors)

RegisterView_serve(v, tbl, log, clock, ip, storeOk) ==
    IF ~v.ok THEN Answer(tbl, log, v)
    ELSE Served(register_user(tbl, log, clock, v.validated_data, ip, storeOk),
                201)

----------------------------------------------------------------------------
(* apps/users: UserCreateByAdminSerializer, UserListView.create,             *)
(* UserUpdateByAdminSerializer, UserDetailView.update                        *)

KeepFields(body, fields) == [k \in DOMAIN body \cap fields |-> body[k]]

UserCreateByAdminSerializer_fields ==
    {"full_name", "id_type", "id_number", "email_primary", "phone",
     "birth_date", "password", "email_secondary", "address",
     "profile_photo_url", "role", "status"}
UserCreateByAdminSerializer_required ==
    {"full_name", "id_type", "id_number", "email_primary", "phone",
     "birth_date", "password", "role", "status"}

\* a role that passes validate_role and the field's choices
validate_role_accepts_any(value) == TRUE
validate_role(value) == value \in Roles
validate_status(value) == value \in Statuses

\* [valid, errors, validated_data]
UserCreateByAdminSerializer(tbl, body) ==
    LET attrs == KeepFields(body, UserCreateByAdminSerializer_fields)
        refused(e) == [valid |-> FALSE, errors |-> e, validated_data |-> NoData]
    IN  IF ~(UserCreateByAdminSerializer_required \subseteq DOMAIN attrs)
        THEN refused("required")
        ELSE IF ~validate_role(attrs.role) \/ ~validate_status(attrs.status)
        THEN refused("invalid_choice")
        ELSE IF \/ \E i \in DOMAIN tbl : tbl[i].email_primary = attrs.email_primary
                \/ ~validate_email_primary(tbl, attrs.email_primary).valid
        THEN refused("email_in_use")
        ELSE IF \E i \in DOMAIN tbl : /\ tbl[i].id_type = attrs.id_type
                                      /\ tbl[i].id_number = attrs.id_number
        THEN refused("identity_in_use")
        ELSE [valid |-> TRUE, errors |-> "",
              validated_data |->
                 [attrs EXCEPT !.email_primary =
                     validate_email_primary(tbl, attrs.email_primary).value]]

\* permission_classes = [IsAuthenticated, IsAdminOrReadOnly], then is_valid()
UserListView_create_check(tbl, actor_user, body) ==
    IF actor_user.role # ADMIN
    THEN Refused(403, "PermissionDenied", "create")
    ELSE LET serializer == UserCreateByAdminSerializer(tbl, body)
         IN  IF serializer.valid THEN Accepted(serializer.validated_data)
             ELSE Refused(400, "ValidationError", serializer.errors)

UserListView_create_serve(v, tbl, log, clock, actor_user, ip, storeOk) ==
    IF ~v.ok THEN Answer(tbl, log, v)
    ELSE LET o == create_user_by_admin(tbl, log, clock, v.validated_data,
                                       actor_user, ip, storeOk)
         IN  IF o.err = "PermissionDenied" THEN [o EXCEPT !.code = 403]
             ELSE Served(o, 201)

UserListView_create(tbl, log, clock, actor_user, body, ip, storeOk) ==
    UserListView_create_serve(UserListView_create_check(tbl, actor_user, body),
                              tbl, log, clock, actor_user, ip, storeOk)

UserUpdateByAdminSerializer_fields_all ==
    UserCreateByAdminSerializer_fields \cup {"id", "created_at"}
UserUpdateByAdminSerializer_fields == UserCreateByAdminSerializer_fields

\* validate_email_primary of the update serializer: the lowered address must
\* not be that of another user; the lowered address is the validated value
validate_email_primary_update(tbl, instance, value) ==
    LET lowered == LowerEmail(value)
    IN  [value |-> lowered,
         valid |-> ~\E i \in DOMAIN tbl : /\ tbl[i].id # instance.id
                                          /\ tbl[i].email_primary = lowered]

\* partial=True: no field is required; the uniqueness validators leave the
\* instance itself out and take from it the half of the identity pair the
\* body does not give.  [valid, errors, validated_data]
UserUpdateByAdminSerializer(tbl, instance, body) ==
    LET attrs == KeepFields(body, UserUpdateByAdminSerializer_fields)
        refused(e) == [valid |-> FALSE, errors |-> e, validated_data |-> NoData]
        has(k) == k \in DOMAIN attrs
        id_type == FieldOr(attrs, "id_type", instance.id_type)
        id_number == FieldOr(attrs, "id_number", instance.id_number)
    IN  IF \/ has("role") /\ ~validate_role(attrs.role)
           \/ has("status") /\ ~validate_status(attrs.status)
        THEN refused("invalid_choice")
        ELSE IF /\ has("email_primary")
                /\ \/ \E i \in DOMAIN tbl :
                         /\ tbl[i].id # instance.id
                         /\ tbl[i].email_primary = attrs.email_primary
                   \/ ~validate_email_primary_update(tbl, instance,
                                                     attrs.email_primary).valid
        THEN refused("email_in_use")
        ELSE IF \E i \in DOMAIN tbl : /\ tbl[i].id # instance.id
                                      /\ tbl[i].id_type = id_type
                                      /\ tbl[i].id_number = id_number
        THEN refused("identity_in_use")
        ELSE [valid |-> TRUE, errors |-> "",
              validated_data |->
                 IF has("email_primary")
                 THEN [attrs EXCEPT !.email_primary =
                          validate_email_primary_update(tbl, instance,
                              attrs.email_primary).value]
                 ELSE attrs]

\* IsOwnerOrAdmin.has_object_permission
IsOwnerOrAdmin(actor_user, obj) ==
    actor_user.role = ADMIN \/ obj.id = actor_user.id

\* GET /users/{id}/: get_object() (NotFound, then the object permission),
\* then the public view of the user
UserDetailView_retrieve(tbl, log, actor_user, id) ==
    IF ~Exists(tbl, id)
    THEN Answer(tbl, log, Refused(404, "NotFound", "Usuario no encontrado"))
    ELSE IF ~IsOwnerOrAdmin(actor_user, Get(tbl, id))
    THEN Answer(tbl, log, Refused(403, "PermissionDenied", "retrieve"))
    ELSE [Outcome(tbl, log, "none", "", Get(tbl, id), "none") EXCEPT !.code = 200]

\* an update view that looks the user up and lets its owner through
UserDetailView_update_check_owner(tbl, actor_user, id, body) ==
    IF ~Exists(tbl, id)
    THEN Refused(404, "NotFound", "Usuario no encontrado")
    ELSE IF ~IsOwnerOrAdmin(actor_user, Get(tbl, id))
    THEN Refused(403, "PermissionDenied", "update")
    ELSE LET serializer == UserUpdateByAdminSerializer(tbl, Get(tbl, id), body)
         IN  IF serializer.valid THEN Accepted(serializer.validated_data)
             ELSE Refused(400, "ValidationError", serializer.errors)
\* the role check of update(), get_object() and is_valid()
UserDetailView_update_check(tbl, actor_user, id, body) ==
    IF actor_user.role # ADMIN
    THEN Refused(403, "PermissionDenied", "update")
    ELSE IF ~Exists(tbl, id)
    THEN Refused(404, "NotFound", "Usuario no encontrado")
    ELSE LET serializer == UserUpdateByAdminSerializer(tbl, Get(tbl, id), body)
         IN  IF serializer.valid THEN Accepted(serializer.validated_data)
             ELSE Refused(400, "ValidationError", serializer.errors)

UserDetailView_update_serve(v, tbl, log, clock, actor_user, id, ip, storeOk) ==
    IF ~v.ok THEN Answer(tbl, log, v)
    ELSE Served(update_user_by_admin(tbl, log, clock, id, v.validated_data,
                                     actor_user, ip, storeOk),
                200)

UserDetailView_update(tbl, log, clock, actor_user, id, body, ip, storeOk) ==
    UserDetailView_update_serve(
        UserDetailView_update_check(tbl, actor_user, id, body),
        tbl, log, clock, actor_user, id, ip, storeOk)

----------------------------------------------------------------------------
(* The inputs the handlers are called with *)

IPs == {"10.0.0.1"}

Root == <<"root", "x.com">>
Ana == <<"ana", "x.com">>
Bob == <<"bob", "x.com">>

SeedAdminId == 1

RegistrationData(email, id_number) ==
    [full_name |-> "Bob", id_type |-> "CC", id_number |-> id_number,
     email_primary |-> email, phone |-> "301", birth_date |-> "1990-01-01",
     password |-> "pw2"]

\* a new address and identity; ana's address exactly, in another case of the
\* domain, in another case of the local part; ana's identity; no password
RegisterData ==
    {RegistrationData(Bob, "2"), RegistrationData(Ana, "2"),
     RegistrationData(<<"ana", "X.com">>, "2"),
     RegistrationData(<<"Ana", "x.com">>, "2"), RegistrationData(Bob, "1"),
     Without(RegistrationData(Bob, "2"), {"password"})}

AdminCreateData ==
    {RegistrationData(Bob, "2") @@ [role |-> SUPERVISOR, status |-> ACTIVE],
     RegistrationData(Bob, "2") @@ [role |-> CLIENT, status |-> SUSPENDED],
     RegistrationData(Ana, "2") @@ [role |-> CLIENT, status |-> ACTIVE]}

AdminUpdateData ==
    {[role |-> SUPERVISOR], [status |-> SUSPENDED], [status |-> ACTIVE],
     [email_primary |-> Bob], [email_primary |-> Root], [password |-> "pw2"],
     [role |-> SUPERVISOR, status |-> SUSPENDED]}

\* the value sent for each key of an own-profile update
SelfValue(k) ==
    CASE k = "full_name" -> "Ann"
      [] k = "phone" -> "301"
      [] k = "password" -> "pw2"
      [] k = "role" -> ADMIN
      [] k = "status" -> SUSPENDED
      [] k = "email_primary" -> Bob
      [] k = "id_type" -> "CE"
      [] k = "id_number" -> "2"
      [] k = "birth_date" -> "2000-01-01"
      [] k \in {"created_at", "updated_at", "last_login_at"} -> 1
      [] OTHER -> "x"

SelfKeys ==
    {"full_name", "phone", "password", "nickname", "role", "status",
     "email_primary", "id_type", "id_number", "birth_date", "created_at",
     "updated_at", "last_login_at"}

\* every dict of one key, and full_name together with every other key
SelfData ==
    {[k \in ks |-> SelfValue(k)] :
        ks \in {{k} : k \in SelfKeys}
               \cup {{"full_name", k} : k \in SelfKeys \ {"full_name"}}}

\* the bodies sent to PATCH /users/me/
PatchBodies ==
    {d \in SelfData :
        DOMAIN d \subseteq {"full_name", "password", "role", "status", "nickname"}}

ListFilters ==
    {NoData, [role |-> ADMIN], [role |-> "ROOT"],
     [role |-> CLIENT, status |-> ACTIVE, search |-> "AN"]}

LoginData ==
    {[email_primary |-> e, password |-> pw] :
        e \in {Ana, <<"zoe", "x.com">>}, pw \in {"pw1", "bad"}}
    \cup {[password |-> "pw1"]}

\* the users who call: the seeded administrator and ana (whose role and
\* status the calls change)
Callers == {SeedAdminId, SeedAdminId + 1}

\* ids a caller can name: every stored id and one that is not stored
TargetIds(tbl) == Ids(tbl) \cup {Len(tbl) + 1}

----------------------------------------------------------------------------
(* The state machine *)

SeedAdmin ==
    [id |-> SeedAdminId, full_name |-> "Root", id_type |-> "CC", id_number |-> "0",
     birth_date |-> "1980-01-01", phone |-> "300", email_primary |-> Root,
     role |-> ADMIN, status |-> ACTIVE, password |-> make_password("pw0"),
     created_at |-> 1, updated_at |-> 1, last_login_at |-> Never]

SeedRegistration ==
    [full_name |-> "Ana", id_type |-> "CC", id_number |-> "1",
     email_primary |-> Ana, phone |-> "300", birth_date |-> "1990-01-01",
     password |-> "pw1"]

\* `result`: the last call (handler, caller, target, data, client address,
\* whether AuditLog.objects.create and RefreshToken.for_user succeed during
\* it) and what the caller got back.
NoCall ==
    [op |-> "none", actor |-> NoId, target |-> NoId, data |-> NoData,
     ip |-> Null, storeOk |-> TRUE, tokenOk |-> TRUE,
     err |-> "none", msg |-> "", code |-> 0, ret |-> NoUser, tokens |-> FALSE,
     logged |-> "none", rows |-> <<>>]

Call(op, actor, target, data, ip, storeOk, tokenOk) ==
    [op |-> op, actor |-> actor, target |-> target, data |-> data, ip |-> ip,
     storeOk |-> storeOk, tokenOk |-> tokenOk]

\* no request is in flight
Idle == [op |-> "none"]

\* One administrator is seeded at time 1, then ana registers at time 2.
Init ==
    LET seeded == register_user(<<SeedAdmin>>, <<>>, 2, SeedRegistration,
                                "10.0.0.1", TRUE)
    IN  /\ users = seeded.users
        /\ audit = seeded.audit
        /\ now = 3
        /\ result = NoCall
        /\ pending = Idle

\* Call c returns outcome o: o becomes the state, and time passes.
Settle(c, o) ==
    /\ now < MaxTime
    /\ users' = o.users
    /\ audit' = o.audit
    /\ now' = now + 1
    /\ result' = c @@ [err |-> o.err, msg |-> o.msg, code |-> o.code,
                       ret |-> o.ret, tokens |-> o.tokens,
                       logged |-> o.logged, rows |-> o.rows]

\* Call c is made and returns o while the request in flight, if any, waits.
Commit(c, o) == Settle(c, o) /\ pending' = pending

Register(data, ip, storeOk) ==
    Commit(Call("register", NoId, NoId, data, ip, storeOk, TRUE),
           register_user(users, audit, now, data, ip, storeOk))

RegisterRequest(body, ip, storeOk) ==
    Commit(Call("register_view", NoId, NoId, body, ip, storeOk, TRUE),
           RegisterView_post(users, audit, now, body, ip, storeOk))

CreateByAdmin(actor, data, ip, storeOk) ==
    Commit(Call("create_by_admin", actor, NoId, data, ip, storeOk, TRUE),
           create_user_by_admin(users, audit, now, data, Get(users, actor), ip,
                                storeOk))

UpdateByAdmin(actor, target, data, ip, storeOk) ==
    Commit(Call("update_by_admin", actor, target, data, ip, storeOk, TRUE),
           update_user_by_admin(users, audit, now, target, data,
                                Get(users, actor), ip, storeOk))

UpdateSelf(actor, data, ip, storeOk) ==
    Commit(Call("update_self", actor, actor, data, ip, storeOk, TRUE),
           update_self_user(users, audit, now, Get(users, actor), data, ip,
                            storeOk))

Suspend(actor, target, ip, storeOk) ==
    Commit(Call("suspend", actor, target, NoData, ip, storeOk, TRUE),
           suspend_user(users, audit, now, target, Get(users, actor), ip, storeOk))

Activate(actor, target, ip, storeOk) ==
    Commit(Call("activate", actor, target, NoData, ip, storeOk, TRUE),
           activate_user(users, audit, now, target, Get(users, actor), ip,
                         storeOk))

ListUsers(actor, filters) ==
    Commit(Call("list_users", actor, NoId, filters, Null, TRUE, TRUE),
           list_users(users, audit, filters, Get(users, actor)))

Login(data, ip, tokenOk, storeOk) ==
    Commit(Call("login", NoId, NoId, data, ip, storeOk, tokenOk),
           LoginView_post(users, audit, now, data, ip, tokenOk, storeOk))

PatchMe(actor, body, ip, storeOk) ==
    Commit(Call("patch_me", actor, actor, body, ip, storeOk, TRUE),
           UserMeView_patch(users, audit, now, Get(users, actor), body, ip,
                            storeOk))

\* every handler, with the audit table accepting every write (S = {TRUE}) or
\* with AuditLog.objects.create free to fail (S = BOOLEAN)
Handlers(S) ==
    \E ip \in IPs, storeOk \in S :
        \/ \E d \in RegisterData : Register(d, ip, storeOk)
        \/ \E b \in RegisterData : RegisterRequest(b, ip, storeOk)
        \/ \E a \in Callers, d \in AdminCreateData : CreateByAdmin(a, d, ip, storeOk)
        \/ \E a \in Callers, t \in TargetIds(users), d \in AdminUpdateData :
              UpdateByAdmin(a, t, d, ip, storeOk)
        \/ \E a \in Callers, d \in SelfData : UpdateSelf(a, d, ip, storeOk)
        \/ \E a \in Callers, t \in TargetIds(users) : Suspend(a, t, ip, storeOk)
        \/ \E a \in Callers, t \in TargetIds(users) : Activate(a, t, ip, storeOk)
        \/ \E a \in Callers, f \in ListFilters : ListUsers(a, f)
        \/ \E d \in LoginData, tokenOk \in BOOLEAN : Login(d, ip, tokenOk, storeOk)
        \/ \E a \in Callers, b \in PatchBodies : PatchMe(a, b, ip, storeOk)

Next == Handlers({TRUE})
Spec == Init /\ [][Next]_vars

NextAuditFault == Handlers(BOOLEAN)
SpecAuditFault == Init /\ [][NextAuditFault]_vars

----------------------------------------------------------------------------
(* The endpoints: every request goes through its view and serializer *)

ClientIp == "10.0.0.1"

\* POST /auth/register/: a new user in lower and in mixed case, ana's address
\* in mixed case, ana's identity, role and status sent along, and the new
\* user's body without each required field in turn
RegisterBodies ==
    {RegistrationData(Bob, "2"), RegistrationData(<<"Bob", "X.com">>, "2"),
     RegistrationData(<<"Ana", "x.com">>, "2"), RegistrationData(Bob, "1"),
     RegistrationData(Bob, "2") @@ [role |-> ADMIN, status |-> SUSPENDED],
     RegistrationData(Bob, "2") @@ [role |-> "ROOT"]}
    \cup {Without(RegistrationData(Bob, "2"), {k}) :
             k \in DOMAIN RegistrationData(Bob, "2")}

\* POST /users/
CreateBodies ==
    AdminCreateData
    \cup {RegistrationData(<<"Bob", "X.com">>, "2")
              @@ [role |-> SUPERVISOR, status |-> ACTIVE],
          RegistrationData(Bob, "2") @@ [role |-> "ROOT", status |-> ACTIVE],
          RegistrationData(Bob, "2") @@ [role |-> CLIENT, status |-> "GONE"]}

\* PATCH /users/{id}/
UpdateBodies ==
    {[role |-> SUPERVISOR], [role |-> "ROOT"], [status |-> SUSPENDED],
     [status |-> "GONE"], [email_primary |-> <<"Bob", "X.com">>],
     [email_primary |-> Root], [id_number |-> "0"],
     [id |-> 9, full_name |-> "Zed"], [created_at |-> 9, full_name |-> "Zed"]}

CreateRequest(actor, body, ip, storeOk) ==
    Commit(Call("create_view", actor, NoId, body, ip, storeOk, TRUE),
           UserListView_create(users, audit, now, Get(users, actor), body, ip,
                               storeOk))

UpdateRequest(actor, target, body, ip, storeOk) ==
    Commit(Call("update_view", actor, target, body, ip, storeOk, TRUE),
           UserDetailView_update(users, audit, now, Get(users, actor), target,
                                 body, ip, storeOk))

RetrieveRequest(actor, target) ==
    Commit(Call("retrieve_view", actor, target, NoData, ClientIp, TRUE, TRUE),
           UserDetailView_retrieve(users, audit, Get(users, actor), target))

NextApi ==
    \/ \E b \in RegisterBodies : RegisterRequest(b, ClientIp, TRUE)
    \/ \E a \in Callers, t \in TargetIds(users) : RetrieveRequest(a, t)
    \/ \E a \in Callers, b \in CreateBodies : CreateRequest(a, b, ClientIp, TRUE)
    \/ \E a \in Callers, t \in TargetIds(users), b \in UpdateBodies :
          UpdateRequest(a, t, b, ClientIp, TRUE)
    \/ \E a \in Callers, b \in PatchBodies : PatchMe(a, b, ClientIp, TRUE)
    \/ \E a \in Callers, t \in TargetIds(users) : Suspend(a, t, ClientIp, TRUE)
    \/ \E a \in Callers, t \in TargetIds(users) : Activate(a, t, ClientIp, TRUE)

SpecApi == Init /\ [][NextApi]_vars

----------------------------------------------------------------------------
(* Two requests at once: one request has passed its checks and waits in     *)
(* `pending` while another is served whole; then its service call is made   *)
(* on the tables as they have become.                                       *)

Zed == <<"zed", "x.com">>

\* bodies that collide with one another on the address, on the identity
RaceRegisterBodies ==
    {RegistrationData(Bob, "2"), RegistrationData(Zed, "2"),
     RegistrationData(Bob, "3")}
RaceCreateBodies ==
    {RegistrationData(Bob, "2") @@ [role |-> SUPERVISOR, status |-> ACTIVE]}
RaceUpdateBodies == {[email_primary |-> Bob], [id_number |-> "2"]}

\* the request is checked on the tables as they are, and waits
Receive(op, actor, target, body, v) ==
    /\ pending = Idle
    /\ now < MaxTime
    /\ pending' = [op |-> op,
                   call |-> Call(op, actor, target, body, ClientIp, TRUE, TRUE),
                   actor_user |-> IF actor = NoId THEN NoUser
                                  ELSE Get(users, actor),
                   verdict |-> v]
    /\ UNCHANGED <<users, audit, now, result>>

ReceiveRegister(body) ==
    Receive("register_view", NoId, NoId, body, RegisterView_check(users, body))

ReceiveCreate(actor, body) ==
    Receive("create_view", actor, NoId, body,
            UserListView_create_check(users, Get(users, actor), body))

ReceiveUpdate(actor, target, body) ==
    Receive("update_view", actor, target, body,
            UserDetailView_update_check(users, Get(users, actor), target, body))

\* the waiting request's service call
ServePending(p) ==
    CASE p.op = "register_view" ->
            RegisterView_serve(p.verdict, users, audit, now, p.call.ip, TRUE)
      [] p.op = "create_view" ->
            UserListView_create_serve(p.verdict, users, audit, now,
                                      p.actor_user, p.call.ip, TRUE)
      [] p.op = "update_view" ->
            UserDetailView_update_serve(p.verdict, users, audit, now,
                                        p.actor_user, p.call.target,
                                        p.call.ip, TRUE)

Serve ==
    /\ pending # Idle
    /\ Settle(pending.call, ServePending(pending))
    /\ pending' = Idle

NextRace ==
    \/ \E b \in RaceRegisterBodies : ReceiveRegister(b)
    \/ \E b \in RaceCreateBodies : ReceiveCreate(SeedAdminId, b)
    \/ \E t \in Ids(users), b \in RaceUpdateBodies :
          ReceiveUpdate(SeedAdminId, t, b)
    \/ Serve
    \/ \E b \in RaceRegisterBodies : RegisterRequest(b, ClientIp, TRUE)
    \/ \E b \in RaceCreateBodies : CreateRequest(SeedAdminId, b, ClientIp, TRUE)
    \/ \E t \in Ids(users), b \in RaceUpdateBodies :
          UpdateRequest(SeedAdminId, t, b, ClientIp, TRUE)

SpecRace == Init /\ [][NextRace]_vars

----------------------------------------------------------------------------
(* The audit logger called on its own *)

\* what a caller of log_audit_event gets: the AuditLog created, or None
LoggerOutcome(tbl, ev) ==
    Outcome(tbl, ev.audit, IF ev.raised THEN "Exception" ELSE "none", "",
            IF ev.logged = "created" THEN ev.audit[Len(ev.audit)] ELSE NoUser,
            ev.logged)

\* the arguments: action and entity present, empty ('') or missing (None);
\* a system event or an administrator's; metadata missing (`metadata or {}`)
\* or given
LoggerActions == {"", Null, LOGIN_FAILED}
LoggerEntities == {"", Null, "User"}
LoggerSubjects == {<<NoId, NoId>>, <<SeedAdminId, SeedAdminId + 1>>}
LoggerMetadata == {NoData, [reason |-> "invalid_credentials"]}

Record(actor, action, entity, entity_id, metadata, ip, storeOk) ==
    Commit(Call("record", actor, entity_id,
                [action |-> action, entity |-> entity, metadata |-> metadata],
                ip, storeOk, TRUE),
           LoggerOutcome(users,
               log_audit_event(audit, now, actor, action, entity, entity_id,
                               metadata, ip, storeOk)))

NextLogger ==
    \E s \in LoggerSubjects, action \in LoggerActions,
       entity \in LoggerEntities, metadata \in LoggerMetadata,
       ip \in IPs, storeOk \in BOOLEAN :
        Record(s[1], action, entity, s[2], metadata, ip, storeOk)
SpecLogger == Init /\ [][NextLogger]_vars

----------------------------------------------------------------------------
(* Listing: the user table is changed by a few calls, then listed *)

\* each filter alone, valid and outside its enum, the search in another case
\* on each searched column, and the three together
ListingFilters ==
    ListFilters
    \cup {[role |-> SUPERVISOR], [status |-> SUSPENDED], [status |-> "GONE"],
          [search |-> "AN"], [search |-> "30"], [search |-> "O"],
          [search |-> "2"], [role |-> "ROOT", status |-> "GONE", search |-> "X.com"],
          [role |-> CLIENT, status |-> SUSPENDED]}

\* what changes the table between listings: a registration, ana's role
\* (which lets her list), a suspension
ListingRoles == {SUPERVISOR, INTERVENTORIA, ADMIN}

NextList ==
    \/ \E a \in Callers, f \in ListingFilters : ListUsers(a, f)
    \/ RegisterRequest(RegistrationData(Bob, "2"), ClientIp, TRUE)
    \/ \E role \in ListingRoles :
          UpdateByAdmin(SeedAdminId, SeedAdminId + 1, [role |-> role],
                        ClientIp, TRUE)
    \/ \E t \in Ids(users) : Suspend(SeedAdminId, t, ClientIp, TRUE)

SpecList == Init /\ [][NextList]_vars

----------------------------------------------------------------------------
(* The admin site (path('admin/', admin.site.urls)): AuditLogAdmin is a     *)
(* ModelAdmin with its default change and delete views; a user who is       *)
(* is_active, is_staff and is_superuser (an ACTIVE ADMIN) may use them.      *)

\* the fields of the change form that are not in readonly_fields
AuditLogAdmin_fields ==
    {"action", "entity", "entity_id", "actor_user", "ip_address", "metadata"}
AuditLogAdmin_readonly_fields == {"id", "created_at"}

has_admin_permission(user) == user.role = ADMIN /\ is_active(user)

\* the change view saves the form's editable fields into the record
AuditLogAdmin_change(tbl, log, actor_user, i, form) ==
    IF ~has_admin_permission(actor_user) \/ i \notin DOMAIN log
    THEN Raised(tbl, log, "PermissionDenied", "admin")
    ELSE LET fields == (DOMAIN form \cap AuditLogAdmin_fields)
                          \ AuditLogAdmin_readonly_fields
         IN  Outcome(tbl,
                     [log EXCEPT ![i] =
                        [k \in DOMAIN log[i] |->
                            IF k \in fields THEN form[k] ELSE log[i][k]]],
                     "none", "", NoUser, "none")

\* the delete view removes the record
AuditLogAdmin_delete(tbl, log, actor_user, i) ==
    IF ~has_admin_permission(actor_user) \/ i \notin DOMAIN log
    THEN Raised(tbl, log, "PermissionDenied", "admin")
    ELSE Outcome(tbl, SubSeq(log, 1, i - 1) \o SubSeq(log, i + 1, Len(log)),
                 "none", "", NoUser, "none")

\* what is typed into the change form
AuditForms ==
    {[action |-> LOGIN_SUCCESS], [metadata |-> [reason |-> "edited"]],
     [ip_address |-> Null],
     [entity_id |-> NoId, created_at |-> 0]}

AdminChangeAudit(actor, i, form) ==
    Commit(Call("admin_change_audit", actor, i, form, ClientIp, TRUE, TRUE),
           AuditLogAdmin_change(users, audit, Get(users, actor), i, form))

AdminDeleteAudit(actor, i) ==
    Commit(Call("admin_delete_audit", actor, i, NoData, ClientIp, TRUE, TRUE),
           AuditLogAdmin_delete(users, audit, Get(users, actor), i))

NextAdmin ==
    \/ \E a \in Callers, i \in DOMAIN audit, form \in AuditForms :
          AdminChangeAudit(a, i, form)
    \/ \E a \in Callers, i \in DOMAIN audit : AdminDeleteAudit(a, i)
    \/ \E d \in LoginData : Login(d, ClientIp, TRUE, TRUE)
    \/ \E a \in Callers, t \in Ids(users) : Suspend(a, t, ClientIp, TRUE)
    \/ \E a \in Callers, t \in Ids(users) : Activate(a, t, ClientIp, TRUE)

SpecAdmin == Init /\ [][NextAdmin]_vars

----------------------------------------------------------------------------
(* Read, then write.  suspend_user, activate_user and update_user_by_admin   *)
(* load the user with User.objects.get, change the loaded object and call    *)
(* user.save(), which writes every column of the loaded object; no           *)
(* transaction or lock spans the two (no transaction.atomic, no              *)
(* select_for_update, ATOMIC_REQUESTS unset).  update_self_user is handed    *)
(* request.user, loaded when the request was authenticated.  A call that     *)
(* has loaded its user waits in `pending` while other calls are made whole.  *)

MaxRaceTime == 6

\* suspend_user from `if user.status == User.Status.SUSPENDED` on
suspend_user_loaded(tbl, log, clock, user, actor_user, ip, storeOk) ==
    IF AlreadySuspended(user)
    THEN Outcome(tbl, log, "none", "", user, "none")
    ELSE
      LET s == save(tbl, clock, [user EXCEPT !.status = SUSPENDED])
      IN  IF s.err # "none"
          THEN Raised(tbl, log, s.err, "")
          ELSE AfterAudit(s.users,
                 log_audit_event(log, clock, actor_user.id,
                     USER_SUSPENDED, "User", s.row.id,
                     [suspended_user_email |-> s.row.email_primary,
                      suspended_by |-> actor_user.id],
                     ip, storeOk),
                 s.row)

\* activate_user from `if user.status == User.Status.ACTIVE` on
activate_user_loaded(tbl, log, clock, user, actor_user, ip, storeOk) ==
    IF AlreadyActive(user)
    THEN Outcome(tbl, log, "none", "", user, "none")
    ELSE
      LET s == save(tbl, clock, [user EXCEPT !.status = ACTIVE])
      IN  IF s.err # "none"
          THEN Raised(tbl, log, s.err, "")
          ELSE AfterAudit(s.users,
                 log_audit_event(log, clock, actor_user.id,
                     USER_ACTIVATED, "User", s.row.id,
                     [activated_user_email |-> s.row.email_primary,
                      activated_by |-> actor_user.id],
                     ip, storeOk),
                 s.row)

\* update_user_by_admin from `old_values = {...}` on
update_user_by_admin_loaded(tbl, log, clock, user, data, actor_user, ip, storeOk) ==
    LET s == save(tbl, clock, ApplyFields(user, data))
    IN  IF s.err # "none"
        THEN Raised(tbl, log, s.err, "")
        ELSE AfterAudit(s.users,
               log_audit_event(log, clock, actor_user.id,
                   USER_UPDATED_BY_ADMIN, "User", s.row.id,
                   AdminUpdateMetadata(user, s.row, actor_user), ip, storeOk),
               s.row)

\* the administrator acts on ana; ana acts on herself
RaceTarget == SeedAdminId + 1
RaceAdminData == {[role |-> SUPERVISOR], [status |-> ACTIVE]}
RaceSelfData == {[full_name |-> "Ann"]}
RaceLogin == [email_primary |-> Ana, password |-> "pw1"]

\* Call c returns o, within the longer run of this section
SettleBy(limit, c, o) ==
    /\ now < limit
    /\ users' = o.users
    /\ audit' = o.audit
    /\ now' = now + 1
    /\ result' = c @@ [err |-> o.err, msg |-> o.msg, code |-> o.code,
                       ret |-> o.ret, tokens |-> o.tokens,
                       logged |-> o.logged, rows |-> o.rows]

Whole(c, o) == SettleBy(MaxRaceTime, c, o) /\ pending' = pending

\* the call has passed its role check and loaded `user`
Load(op, actor, target, data, user) ==
    /\ pending = Idle
    /\ now < MaxRaceTime
    /\ pending' = [op |-> op,
                   call |-> Call(op, actor, target, data, ClientIp, TRUE, TRUE),
                   actor_user |-> Get(users, actor),
                   user |-> user]
    /\ UNCHANGED <<users, audit, now, result>>

LoadSuspend(actor, target) ==
    /\ IsAdminRole(Get(users, actor)) /\ Exists(users, target)
    /\ Load("suspend", actor, target, NoData, Get(users, target))

LoadActivate(actor, target) ==
    /\ IsAdminRole(Get(users, actor)) /\ Exists(users, target)
    /\ Load("activate", actor, target, NoData, Get(users, target))

LoadUpdateByAdmin(actor, target, data) ==
    /\ IsAdminRole(Get(users, actor)) /\ Exists(users, target)
    /\ Load("update_by_admin", actor, target, data, Get(users, target))

\* PATCH /users/me/: request.user is loaded from the token of an active user
LoadPatchMe(actor, body) ==
    /\ is_active(Get(users, actor))
    /\ Load("patch_me", actor, actor, body, Get(users, actor))

\* the waiting call goes on with the user it loaded
FinishPending(p) ==
    CASE p.op = "suspend" ->
            suspend_user_loaded(users, audit, now, p.user, p.actor_user,
                                p.call.ip, TRUE)
      [] p.op = "activate" ->
            activate_user_loaded(users, audit, now, p.user, p.actor_user,
                                 p.call.ip, TRUE)
      [] p.op = "update_by_admin" ->
            update_user_by_admin_loaded(users, audit, now, p.user, p.call.data,
                                        p.actor_user, p.call.ip, TRUE)
      [] p.op = "patch_me" ->
            UserMeView_patch(users, audit, now, p.user, p.call.data,
                             p.call.ip, TRUE)

Finish ==
    /\ pending # Idle
    /\ SettleBy(MaxRaceTime, pending.call, FinishPending(pending))
    /\ pending' = Idle

WholeSuspend(actor, target) ==
    Whole(Call("suspend", actor, target, NoData, ClientIp, TRUE, TRUE),
          suspend_user(users, audit, now, target, Get(users, actor), ClientIp,
                       TRUE))

WholeActivate(actor, target) ==
    Whole(Call("activate", actor, target, NoData, ClientIp, TRUE, TRUE),
          activate_user(users, audit, now, target, Get(users, actor), ClientIp,
                        TRUE))

WholeUpdateByAdmin(actor, target, data) ==
    Whole(Call("update_by_admin", actor, target, data, ClientIp, TRUE, TRUE),
          update_user_by_admin(users, audit, now, target, data,
                               Get(users, actor), ClientIp, TRUE))

WholeLogin(data) ==
    Whole(Call("login", NoId, NoId, data, ClientIp, TRUE, TRUE),
          LoginView_post(users, audit, now, data, ClientIp, TRUE, TRUE))

NextStale ==
    \/ LoadSuspend(SeedAdminId, RaceTarget)
    \/ LoadActivate(SeedAdminId, RaceTarget)
    \/ \E d \in RaceAdminData : LoadUpdateByAdmin(SeedAdminId, RaceTarget, d)
    \/ \E b \in RaceSelfData : LoadPatchMe(RaceTarget, b)
    \/ Finish
    \/ WholeSuspend(SeedAdminId, RaceTarget)
    \/ WholeActivate(SeedAdminId, RaceTarget)
    \/ \E d \in RaceAdminData : WholeUpdateByAdmin(SeedAdminId, RaceTarget, d)
    \/ WholeLogin(RaceLogin)

SpecStale == Init /\ [][NextStale]_vars

----------------------------------------------------------------------------
(* Properties.  A step of the machine is one call: result' is the call and   *)
(* what it returned, users/audit the tables before it, users'/audit' after.  *)

ActorRole(r) == Get(users, r.actor).role

\* the audit records a step added
Added == SubSeq(audit', Len(audit) + 1, Len(audit'))
AppendOnly == Len(audit') >= Len(audit) /\ SubSeq(audit', 1, Len(audit)) = audit

\* C1: a role-gated operation called by an actor lacking the role fails with
\* PermissionDenied and leaves users and the audit log unchanged:
\* create_by_admin, update_by_admin, suspend, activate for a role other than
\* ADMIN; list_users for a role other than ADMIN, SUPERVISOR, INTERVENTORIA.
C1_RoleGate ==
    [][LET r == result'
       IN  (\/ /\ r.op \in {"create_by_admin", "update_by_admin", "suspend",
                            "activate"}
               /\ ActorRole(r) # ADMIN
            \/ /\ r.op = "list_users"
               /\ ActorRole(r) \notin {ADMIN, SUPERVISOR, INTERVENTORIA})
           => /\ r.err = "PermissionDenied"
              /\ users' = users
              /\ audit' = audit]_vars

\* a SUPERVISOR (ana, promoted by the administrator) was refused a suspend
C1_Witness ==
    /\ result.op = "suspend"
    /\ result.err = "PermissionDenied"
    /\ Get(users, result.actor).role = SUPERVISOR

\* the keys update_self must refuse, as the contract lists them
ProhibitedKeys ==
    {"role", "status", "email_primary", "id_type", "id_number", "birth_date",
     "created_at", "updated_at", "last_login_at"}

\* C2: update_self with at least one prohibited key in data fails with a
\* ValidationError, applies no field of data (allowed ones included) and emits
\* no audit record, for every mix of allowed and prohibited keys.
C2_SelfUpdateProhibited ==
    [][LET r == result'
       IN  (r.op = "update_self" /\ DOMAIN r.data \cap ProhibitedKeys # {})
           => /\ r.err = "ValidationError"
              /\ r.msg = "prohibited_fields"
              /\ users' = users
              /\ audit' = audit]_vars

\* update_self was refused a dict mixing full_name with role
C2_Witness ==
    /\ result.op = "update_self"
    /\ DOMAIN result.data = {"full_name", "role"}
    /\ result.err = "ValidationError"

\* C3: a PATCH own-profile request whose body contains a prohibited key is
\* answered 400 and leaves the user record unchanged, whatever allowed keys
\* the body also contains.
C3_PatchProhibited ==
    [][LET r == result'
       IN  (r.op = "patch_me" /\ DOMAIN r.data \cap ProhibitedKeys # {})
           => /\ r.code = 400
              /\ users' = users]_vars

\* C4: two suspend calls in a row by an ADMIN on an ACTIVE user: the first
\* changes ACTIVE to SUSPENDED and emits exactly one USER_SUSPENDED record;
\* the second succeeds, returns the user still SUSPENDED, changes nothing and
\* emits no record.  The same for two activate calls on a SUSPENDED user with
\* USER_ACTIVATED.
FirstToggle(r, op, from, to, action) ==
    (/\ r.op = op
     /\ ActorRole(r) = ADMIN
     /\ Exists(users, r.target)
     /\ Get(users, r.target).status = from)
    => /\ r.err = "none"
       /\ r.ret = Get(users', r.target)
       /\ Get(users', r.target).status = to
       /\ \A i \in DOMAIN users :
             users[i].id # r.target => users'[i] = users[i]
       /\ AppendOnly
       /\ Len(Added) = 1
       /\ Added[1].action = action
       /\ Added[1].entity_id = r.target
       /\ Added[1].actor_user = r.actor

SecondToggle(r, op, to) ==
    (/\ r.op = op
     /\ result.op = op
     /\ result.err = "none"
     /\ r.target = result.target
     /\ ActorRole(r) = ADMIN)
    => /\ r.err = "none"
       /\ r.ret = Get(users, r.target)
       /\ r.ret.status = to
       /\ users' = users
       /\ audit' = audit

C4_ToggleTwice ==
    [][LET r == result'
       IN  /\ FirstToggle(r, "suspend", ACTIVE, SUSPENDED, USER_SUSPENDED)
           /\ SecondToggle(r, "suspend", SUSPENDED)
           /\ FirstToggle(r, "activate", SUSPENDED, ACTIVE, USER_ACTIVATED)
           /\ SecondToggle(r, "activate", ACTIVE)]_vars

\* the second of two suspend calls has returned: the last record of the log
\* is the one USER_SUSPENDED of the first call, and the last call logged none
C4_Witness ==
    /\ result.op = "suspend"
    /\ result.err = "none"
    /\ result.logged = "none"
    /\ audit[Len(audit)].action = USER_SUSPENDED
    /\ audit[Len(audit)].entity_id = result.target
    /\ Cardinality({i \in DOMAIN audit : audit[i].action = USER_SUSPENDED}) = 1

\* C5: register with an email_primary equal, ignoring letter case, to that of
\* an existing user fails with the duplicate-email error, and the user
\* records are the same after the call as before it.
C5_RegisterDuplicateEmail ==
    [][LET r == result'
       IN  (/\ r.op \in {"register", "register_view"}
            /\ \E i \in DOMAIN users :
                  LowerEmail(users[i].email_primary)
                      = LowerEmail(r.data.email_primary))
           => /\ r.err = "ValidationError"
              /\ r.msg = "email_in_use"
              /\ users' = users]_vars

\* the stored users a login request names with the right password
Authenticated(r) ==
    IF "email_primary" \in DOMAIN r.data /\ "password" \in DOMAIN r.data
    THEN {i \in DOMAIN users :
            /\ users[i].email_primary = LowerEmail(r.data.email_primary)
            /\ check_password(r.data.password, users[i].password)}
    ELSE {}

\* C6: a login with the email of an existing user and a wrong password, and a
\* login with an email no user has, get the same outcome (InvalidCredentials,
\* 401, same body) and the same audit record (LOGIN_FAILED, actor null,
\* reason invalid_credentials): the outcome is a function of the request
\* alone, whichever of the two cases it is.
C6_InvalidLoginUniform ==
    [][LET r == result'
       IN  (/\ r.op = "login"
            /\ "email_primary" \in DOMAIN r.data
            /\ "password" \in DOMAIN r.data
            /\ Authenticated(r) = {})
           => /\ r.code = 401
              /\ r.err = "InvalidCredentials"
              /\ r.msg = "invalid_credentials"
              /\ ~r.tokens
              /\ r.ret = NoUser
              /\ users' = users
              /\ audit' = Append(audit,
                    AuditRow(audit, now, NoId, LOGIN_FAILED, "User", NoId,
                             [email |-> r.data.email_primary,
                              reason |-> "invalid_credentials"], r.ip))]_vars

\* ana's address with a wrong password was answered 401
C6_Witness ==
    /\ result.op = "login"
    /\ result.code = 401
    /\ result.logged = "created"
    /\ \E i \in DOMAIN users :
          /\ users[i].email_primary = LowerEmail(result.data.email_primary)
          /\ ~check_password(result.data.password, users[i].password)

C8_SuccessfulLogin ==
    [][LET r == result'
       IN  \A i \in Authenticated(r) :
              (r.op = "login" /\ users[i].status = ACTIVE /\ r.tokenOk)
              => /\ r.code = 200
                 /\ r.tokens
                 /\ r.ret = users'[i]
                 /\ users' = [users EXCEPT ![i].last_login_at = now]
                 /\ audit' = Append(audit,
                       AuditRow(audit, now, users[i].id, LOGIN_SUCCESS, "User",
                                users[i].id,
                                [email |-> users[i].email_primary], r.ip))]_vars

\* ana logged in: her last_login_at is the time of the call
C8_Witness ==
    /\ result.op = "login"
    /\ result.code = 200
    /\ result.tokens
    /\ result.ret.last_login_at = now - 1
    /\ audit[Len(audit)].action = LOGIN_SUCCESS

\* the audit action of each operation that changes a user record
AuditedAction(op) ==
    CASE op \in {"register", "register_view"} -> USER_REGISTERED
      [] op = "create_by_admin" -> USER_CREATED_BY_ADMIN
      [] op = "update_by_admin" -> USER_UPDATED_BY_ADMIN
      [] op \in {"update_self", "patch_me"} -> USER_UPDATED_SELF
      [] op = "suspend" -> USER_SUSPENDED
      [] op = "activate" -> USER_ACTIVATED
      [] op = "login" -> LOGIN_SUCCESS
      [] OTHER -> ""

Succeeded(r) ==
    IF r.op \in {"login", "patch_me"} THEN r.code = 200
    ELSE IF r.op = "register_view" THEN r.code = 201
    ELSE r.err = "none"

\* the ids of the user records a step created or changed
Touched ==
    {users'[i].id : i \in {j \in DOMAIN users' :
                             j \notin DOMAIN users \/ users'[j] # users[j]}}

\* the step added exactly one record, of the operation's action, about the
\* record it changed
RecordedOnce(r) ==
    /\ AppendOnly
    /\ Len(Added) = 1
    /\ Added[1].action = AuditedAction(r.op)
    /\ Added[1].entity_id \in Touched

\* C9 as stated: every successful operation that changed a user record has a
\* persisted audit record for that action.
C9_EveryChangeAudited ==
    [][(Succeeded(result') /\ users' # users) => RecordedOnce(result')]_vars

\* C9: every successful operation that changed a user record has a persisted
\* audit record for that action, unless persisting that record failed: then
\* the operation still succeeded and the log has no record of it.
C9_ChangeAuditedUnlessStoreFails ==
    [][(Succeeded(result') /\ users' # users)
       => IF result'.storeOk
          THEN RecordedOnce(result')
          ELSE audit' = audit /\ result'.logged = "failed"]_vars

\* an administrator's update changed a record and its record is in the log
C9_Witness ==
    /\ result.op = "update_by_admin"
    /\ result.err = "none"
    /\ result.logged = "created"
    /\ audit[Len(audit)].action = USER_UPDATED_BY_ADMIN
    /\ audit[Len(audit)].entity_id = result.target

\* the handler of call c, run on the given tables
Run(tbl, log, clock, c) ==
    CASE c.op = "register" ->
           register_user(tbl, log, clock, c.data, c.ip, c.storeOk)
      [] c.op = "register_view" ->
           RegisterView_post(tbl, log, clock, c.data, c.ip, c.storeOk)
      [] c.op = "create_by_admin" ->
           create_user_by_admin(tbl, log, clock, c.data, Get(tbl, c.actor),
                                c.ip, c.storeOk)
      [] c.op = "update_by_admin" ->
           update_user_by_admin(tbl, log, clock, c.target, c.data,
                                Get(tbl, c.actor), c.ip, c.storeOk)
      [] c.op = "update_self" ->
           update_self_user(tbl, log, clock, Get(tbl, c.actor), c.data, c.ip,
                            c.storeOk)
      [] c.op = "patch_me" ->
           UserMeView_patch(tbl, log, clock, Get(tbl, c.actor), c.data, c.ip,
                            c.storeOk)
      [] c.op = "suspend" ->
           suspend_user(tbl, log, clock, c.target, Get(tbl, c.actor), c.ip,
                        c.storeOk)
      [] c.op = "activate" ->
           activate_user(tbl, log, clock, c.target, Get(tbl, c.actor), c.ip,
                         c.storeOk)
      [] c.op = "login" ->
           LoginView_post(tbl, log, clock, c.data, c.ip, c.tokenOk, c.storeOk)

\* C10: when persisting the audit record fails inside register,
\* create_by_admin, update_by_admin, update_self, suspend, activate or login,
\* the logger returns null without raising (nothing is added to the log, no
\* exception reaches the caller), and the operation returns what it returns
\* when the record is persisted, with the same change to the user records;
\* for the services that is a success with the record changed.
C10_AuditFailureContained ==
    [][LET r == result'
           o == Run(users, audit, now, [r EXCEPT !.storeOk = TRUE])
       IN  r.logged = "failed"
           => /\ audit' = audit
              /\ r.err = o.err
              /\ r.code = o.code
              /\ r.ret = o.ret
              /\ r.tokens = o.tokens
              /\ users' = o.users
              /\ o.logged = "created"
              /\ r.op # "login" => (Succeeded(r) /\ users' # users)
              /\ (r.op = "login" /\ r.tokens)
                    => (r.code = 200 /\ r.ret.last_login_at = now)]_vars

\* a suspend changed the status although its audit record could not be saved
C10_Witness ==
    /\ result.op = "suspend"
    /\ result.logged = "failed"
    /\ result.err = "none"
    /\ result.ret.status = SUSPENDED
    /\ Get(users, result.target).status = SUSPENDED

\* C11: the audit logger called with an empty or missing action, or an empty
\* or missing entity, returns null, persists no audit record and raises
\* nothing, for every value of the other arguments.
C11_LoggerSkipsIncomplete ==
    [][LET r == result'
       IN  (/\ r.op = "record"
            /\ \/ r.data.action \in {"", Null}
               \/ r.data.entity \in {"", Null})
           => /\ r.ret = NoUser
              /\ r.err = "none"
              /\ r.logged = "skipped"
              /\ audit' = audit
              /\ users' = users]_vars

\* the logger was given an empty action with a real entity and a store that
\* accepts writes, and returned null
C11_Witness ==
    /\ result.op = "record"
    /\ result.data.action = ""
    /\ result.data.entity = "User"
    /\ result.storeOk
    /\ result.ret = NoUser
    /\ result.logged = "skipped"

\* C12: every failed login and every permission denial (a gated operation
\* refused because of the actor's role) attempts to emit an audit record
\* before the error is returned: log_audit_event is called during the call.
C12_DenialsAudited ==
    [][LET r == result'
       IN  (\/ r.err = "PermissionDenied"
            \/ r.op = "login" /\ r.code \in {401, 403})
           => r.logged # "none"]_vars

\* C13: in every reachable state, with requests to register, create and
\* update overlapping, no two users have the same email_primary and no two
\* users have the same (id_type, id_number).
C13_Unique ==
    \A i, j \in DOMAIN users :
        i # j => /\ users[i].email_primary # users[j].email_primary
                 /\ <<users[i].id_type, users[i].id_number>>
                       # <<users[j].id_type, users[j].id_number>>

\* a request that passed its checks is refused by the table: an update whose
\* address or identity was taken while it waited
C13_Witness ==
    /\ result.op = "update_view"
    /\ result.err = "IntegrityError"
    /\ Len(users) = 3
    /\ pending = Idle

\* the pair (id_type, id_number) of the data is a stored user's, and its
\* address is no stored user's
IdentityOnlyTaken(tbl, d) ==
    /\ {"id_type", "id_number", "email_primary"} \subseteq DOMAIN d
    /\ \E i \in DOMAIN tbl : /\ tbl[i].id_type = d.id_type
                             /\ tbl[i].id_number = d.id_number
    /\ \A i \in DOMAIN tbl :
          tbl[i].email_primary # normalize_email(d.email_primary)

\* C14: in register, create_by_admin and update_by_admin a write the store
\* rejects as a duplicate never reaches the caller as the raw storage
\* exception (IntegrityError), and a write rejected for a duplicate
\* (id_type, id_number) alone is never reported as a duplicate email.
C14_DuplicateErrors ==
    [][LET r == result'
       IN  r.op \in {"register", "create_by_admin", "update_by_admin"}
           => /\ r.err # "IntegrityError"
              /\ (/\ r.op \in {"register", "create_by_admin"}
                  /\ r.err # "none"
                  /\ IdentityOnlyTaken(users, r.data))
                 => r.msg # "email_in_use"]_vars

\* C15: after any sequence of register, create_by_admin and update_by_admin
\* calls, the email_primary of every stored user is in lowercase, the local
\* part and the domain both.
C15_EmailLowercase ==
    \A i \in DOMAIN users :
        users[i].email_primary = LowerEmail(users[i].email_primary)

C18_ChangesDiff ==
    [][LET r == result'
       IN  (r.op = "update_by_admin" /\ r.err = "none" /\ r.logged = "created")
           => LET rec == audit'[Len(audit')]
                  old == Get(users, r.target)
                  new == Get(users', r.target)
                  changed == {f \in {"role", "status", "email_primary"} :
                                 old[f] # new[f]}
              IN  /\ Len(audit') = Len(audit) + 1
                  /\ rec.action = USER_UPDATED_BY_ADMIN
                  /\ ("changes" \in DOMAIN rec.metadata) <=> (changed # {})
                  /\ changed # {}
                     => /\ DOMAIN rec.metadata.changes = changed
                        /\ \A f \in changed :
                              rec.metadata.changes[f]
                                 = [old |-> old[f], new |-> new[f]]]_vars

\* an update of role and status together, and one that changed none of the
\* three fields, were recorded
C18_Witness ==
    /\ result.op = "update_by_admin"
    /\ result.err = "none"
    /\ result.data = [password |-> "pw2"]
    /\ audit[Len(audit)].action = USER_UPDATED_BY_ADMIN
    /\ "changes" \notin DOMAIN audit[Len(audit)].metadata
    /\ \E i \in DOMAIN audit :
          /\ audit[i].action = USER_UPDATED_BY_ADMIN
          /\ "changes" \in DOMAIN audit[i].metadata
          /\ DOMAIN audit[i].metadata.changes = {"role", "status"}

Listed(tbl, f) ==
    {tbl[i].id : i \in {j \in DOMAIN tbl :
        /\ ("role" \in DOMAIN f /\ f.role \in Roles) => tbl[j].role = f.role
        /\ ("status" \in DOMAIN f /\ f.status \in Statuses)
              => tbl[j].status = f.status
        /\ "search" \in DOMAIN f
              => \E h \in {tbl[j].full_name, tbl[j].email_primary[1],
                           tbl[j].email_primary[2], tbl[j].id_number,
                           tbl[j].phone} : icontains(h, f.search)}}

ValidUpdate(r) ==
    UserUpdateByAdminSerializer(users, Get(users, r.target), r.data).valid

\* C22: a GET or PATCH of a user by id is answered 404 when no user has that
\* id, 403 when the requester is neither that user nor an ADMIN, and 200
\* when the requester is that user or an ADMIN and the data are valid.
C22_DetailAnswers ==
    [][LET r == result'
       IN  r.op \in {"retrieve_view", "update_view"}
           => IF ~Exists(users, r.target) THEN r.code = 404
              ELSE IF ~(ActorRole(r) = ADMIN \/ r.actor = r.target)
              THEN r.code = 403
              ELSE (r.op = "update_view" => ValidUpdate(r)) => r.code = 200]_vars

\* C22 as the views answer: a GET is answered 404 when no user has the id,
\* 403 when the requester is neither that user nor an ADMIN, 200 otherwise;
\* a PATCH is answered 403 whenever the requester is not an ADMIN (the user
\* themself included, whether or not the id exists), 404 when an ADMIN names
\* an id no user has, and 200 when an ADMIN sends valid data.
C22_DetailAnswersAdminPatch ==
    [][LET r == result'
       IN  /\ r.op = "retrieve_view"
              => IF ~Exists(users, r.target) THEN r.code = 404
                 ELSE IF ~(ActorRole(r) = ADMIN \/ r.actor = r.target)
                 THEN r.code = 403
                 ELSE r.code = 200 /\ r.ret = Get(users, r.target)
           /\ r.op = "update_view"
              => IF ActorRole(r) # ADMIN
                 THEN r.code = 403 /\ users' = users /\ audit' = audit
                 ELSE IF ~Exists(users, r.target) THEN r.code = 404
                 ELSE ValidUpdate(r) => r.code = 200]_vars

\* ana, a CLIENT, sends a valid PATCH of her own user and is answered 403
C22_Witness ==
    /\ result.op = "update_view"
    /\ result.actor = SeedAdminId + 1
    /\ result.target = result.actor
    /\ result.data = [status |-> SUSPENDED]
    /\ Get(users, result.actor).role = CLIENT
    /\ Get(users, result.actor).status = ACTIVE
    /\ result.code = 403

\* the passwords sent in the calls, and their stored hashes
PasswordValues == {"pw0", "pw1", "pw2", "bad"}
PasswordHashes == {make_password(p) : p \in PasswordValues}

\* no key or value of the metadata is a password or its hash
PasswordFree(md) ==
    /\ "password" \notin DOMAIN md
    /\ \A k \in DOMAIN md \cap {"role", "reason", "created_user_role",
                                "created_user_status"} :
          md[k] \notin PasswordValues
    /\ \A k \in DOMAIN md \cap {"email", "created_user_email",
                                "updated_user_email", "suspended_user_email",
                                "activated_user_email"} :
          md[k] \notin PasswordHashes
    /\ "updated_fields" \in DOMAIN md
          => md.updated_fields \cap PasswordValues = {}
    /\ "password_changed" \in DOMAIN md => md.password_changed \in BOOLEAN
    /\ "changes" \in DOMAIN md
          => DOMAIN md.changes \subseteq {"role", "status", "email_primary"}

\* C23: a successful update_self emits one USER_UPDATED_SELF record whose
\* metadata lists the names of the fields updated and carries
\* password_changed = true exactly when the password was changed; after any
\* sequence of operations no audit record's metadata contains a password.
C23_SelfUpdateRecord ==
    [][LET r == result'
       IN  /\ (r.op = "update_self" /\ r.err = "none")
              => /\ Len(Added) = 1
                 /\ Added[1].action = USER_UPDATED_SELF
                 /\ Added[1].actor_user = r.actor
                 /\ Added[1].entity_id = r.actor
                 /\ Added[1].metadata.updated_fields
                       = (DOMAIN r.data \ {"password"})
                            \cap {"full_name", "phone", "address",
                                  "email_secondary", "profile_photo_url"}
                 /\ IF "password" \in DOMAIN r.data /\ r.data.password # ""
                    THEN /\ "password_changed" \in DOMAIN Added[1].metadata
                         /\ Added[1].metadata.password_changed = TRUE
                         /\ Get(users', r.actor).password
                               = make_password(r.data.password)
                    ELSE /\ "password_changed" \notin DOMAIN Added[1].metadata
                         /\ Get(users', r.actor).password
                               = Get(users, r.actor).password
           /\ \A i \in DOMAIN audit' : PasswordFree(audit'[i].metadata)]_vars

\* an update of name and password together was recorded with the flag
C23_Witness ==
    /\ result.op = "update_self"
    /\ result.err = "none"
    /\ result.data = [full_name |-> "Ann", password |-> "pw2"]
    /\ audit[Len(audit)].action = USER_UPDATED_SELF
    /\ audit[Len(audit)].metadata
          = [updated_fields |-> {"full_name"}, password_changed |-> TRUE]

\* C24: the audit log is append-only: every audit record once created is
\* still in the log with its action, entity, entity_id, metadata,
\* ip_address and created_at unchanged; operations only add records.
C24_AuditAppendOnly ==
    [][/\ Len(audit') >= Len(audit)
       /\ \A i \in DOMAIN audit :
             \E j \in DOMAIN audit' :
                /\ audit'[j].id = audit[i].id
                /\ audit'[j].action = audit[i].action
                /\ audit'[j].entity = audit[i].entity
                /\ audit'[j].entity_id = audit[i].entity_id
                /\ audit'[j].metadata = audit[i].metadata
                /\ audit'[j].ip_address = audit[i].ip_address
                /\ audit'[j].created_at = audit[i].created_at]_vars

\* C25: each successful register emits exactly one USER_REGISTERED record
\* whose actor and entity_id are the new user; each successful
\* create_by_admin emits exactly one USER_CREATED_BY_ADMIN record whose actor
\* is the calling admin and whose entity_id is the created user.
C25_CreationRecords ==
    [][LET r == result'
           new == users'[Len(users')]
       IN  /\ (r.op \in {"register", "register_view"} /\ r.err = "none")
              => /\ Len(users') = Len(users) + 1
                 /\ r.ret = new
                 /\ Len(Added) = 1
                 /\ Added[1].action = "USER_REGISTERED"
                 /\ Added[1].entity = "User"
                 /\ Added[1].actor_user = new.id
                 /\ Added[1].entity_id = new.id
           /\ (r.op \in {"create_by_admin", "create_view"} /\ r.err = "none")
              => /\ Len(users') = Len(users) + 1
                 /\ r.ret = new
                 /\ Len(Added) = 1
                 /\ Added[1].action = "USER_CREATED_BY_ADMIN"
                 /\ Added[1].entity = "User"
                 /\ Added[1].actor_user = r.actor
                 /\ Added[1].entity_id = new.id
                 /\ new.id # r.actor]_vars

\* bob registered and the administrator created a user: one record each
C25_Witness ==
    /\ result.op = "create_by_admin"
    /\ result.err = "none"
    /\ Len(users) = 3
    /\ audit[Len(audit)].action = USER_CREATED_BY_ADMIN
    /\ audit[Len(audit)].actor_user = SeedAdminId
    /\ audit[Len(audit)].entity_id = 3
    /\ Cardinality({i \in DOMAIN audit : audit[i].action = USER_REGISTERED}) = 1

\* C26: when two suspend calls on the same ACTIVE user interleave, at most
\* one USER_SUSPENDED record is emitted for the one change from ACTIVE to
\* SUSPENDED: a suspend that finds the stored status already SUSPENDED when
\* it writes adds no record; the same for activate and USER_ACTIVATED.
C26_OneRecordPerTransition ==
    [][LET r == result'
       IN  /\ (r.op = "suspend" /\ Exists(users, r.target)
               /\ Get(users, r.target).status = SUSPENDED)
              => \A i \in DOMAIN Added : Added[i].action # USER_SUSPENDED
           /\ (r.op = "activate" /\ Exists(users, r.target)
               /\ Get(users, r.target).status = ACTIVE)
              => \A i \in DOMAIN Added : Added[i].action # USER_ACTIVATED]_vars

\* the columns of a user other than the time of the last write
UserColumns ==
    {"id", "full_name", "id_type", "id_number", "birth_date", "phone",
     "email_primary", "role", "status", "password", "created_at",
     "last_login_at"}

\* C27: update_by_admin(target, data) writes only the fields present in
\* data: every field of the target absent from data keeps the value stored
\* at the time of the write, also when a suspend, activate or another
\* update_by_admin of the target commits between the read and the save.
C27_UpdateWritesDataOnly ==
    [][LET r == result'
       IN  (r.op = "update_by_admin" /\ r.err = "none")
           => \A k \in UserColumns \ DOMAIN r.data :
                 Get(users', r.target)[k] = Get(users, r.target)[k]]_vars

\* C28: update_self never changes the stored role, status or email_primary
\* of its user, also when a suspend, activate or update_by_admin of that
\* user commits between the loading of the user for the request and the
\* save.
C28_SelfKeepsRoleStatusEmail ==
    [][LET r == result'
       IN  r.op \in {"update_self", "patch_me"}
           => /\ Get(users', r.actor).role = Get(users, r.actor).role
              /\ Get(users', r.actor).status = Get(users, r.actor).status
              /\ Get(users', r.actor).email_primary
                    = Get(users, r.actor).email_primary]_vars

\* by the log, a suspend of user u has completed and no activate or
\* update_by_admin of u has completed since
SuspendedSince(log, u) ==
    \E i \in DOMAIN log :
        /\ log[i].action = USER_SUSPENDED
        /\ log[i].entity_id = u
        /\ \A j \in DOMAIN log :
              j > i => ~(/\ log[j].entity_id = u
                         /\ log[j].action \in {USER_ACTIVATED,
                                               USER_UPDATED_BY_ADMIN})

\* C29: once a suspend of user u has completed, no login started afterwards
\* with u's credentials returns tokens or emits LOGIN_SUCCESS until u's
\* status has been set back to ACTIVE by activate or update_by_admin.
C29_NoLoginWhileSuspended ==
    [][LET r == result'
       IN  (r.op = "login" /\ "email_primary" \in DOMAIN r.data)
           => \A i \in DOMAIN users :
                 (/\ users[i].email_primary = LowerEmail(r.data.email_primary)
                  /\ SuspendedSince(audit, users[i].id))
                 => /\ ~r.tokens
                    /\ \A k \in DOMAIN Added :
                          Added[k].action # LOGIN_SUCCESS]_vars

\* C30: when token issuance fails during a login with correct credentials of
\* an ACTIVE user, the login is answered with an internal error (500),
\* returns no tokens, leaves the user's last_login_at (and every other stored
\* value) unchanged and emits neither LOGIN_SUCCESS nor LOGIN_FAILED.
C30_TokenFailure ==
    [][LET r == result'
       IN  \A i \in Authenticated(r) :
              (r.op = "login" /\ users[i].status = ACTIVE /\ ~r.tokenOk)
              => /\ r.code = 500
                 /\ ~r.tokens
                 /\ users'[i].last_login_at = users[i].last_login_at
                 /\ users' = users
                 /\ \A k \in DOMAIN Added :
                       Added[k].action \notin {LOGIN_SUCCESS, LOGIN_FAILED}]_vars

\* ana gave her password, is ACTIVE, and the issuance of her tokens failed
C30_Witness ==
    /\ result.op = "login"
    /\ ~result.tokenOk
    /\ result.code = 500
    /\ Authenticated(result) # {}
    /\ \A i \in Authenticated(result) : users[i].status = ACTIVE

=============================================================================
